---- MODULE Spec2Model ----
(***************************************************************************)
(* agent-memcp: the semantic memory store (SqliteBackend) and its          *)
(* embedding-backed ranking, modelled as a state machine over the          *)
(* `memories` table.                                                       *)
(*                                                                         *)
(* Conventions of the model                                                *)
(*   - NULL stands for JavaScript null/undefined and SQL NULL.  It is a    *)
(*     value of its own; no caller ever passes it as a real string.        *)
(*   - Timestamps (new Date().toISOString()) are naturals: the ISO-8601    *)
(*     text sorts exactly like the millisecond clock it prints.            *)
(*   - Vectors are sequences of integers in units of 1/5, so that          *)
(*     <<3, 4>> is the unit vector (0.6, 0.8); similarity scores are        *)
(*     integers in hundredths (100 = 1.0).                                 *)
(*   - tags are kept as the sequence of strings that JSON.stringify        *)
(*     writes and JSON.parse reads back.                                   *)
(***************************************************************************)
EXTENDS Integers, Sequences, FiniteSets, TLC

VARIABLES
    rows,      \* the `memories` table: a set of MemoryRow records
    pending,   \* store() calls suspended at `await embeddingService.embed`
    clock,     \* the wall clock as `new Date()` last read it
    ncalls,    \* how many calls have been invoked so far
    ret,       \* what the call that completed in the last step returned
    initPromise,   \* EmbeddingService.initPromise: 0 for null, else the load it is
    loads,         \* the promises _init() has returned, in order: their states
    extractor,     \* EmbeddingService.extractor: "null" or "loaded"
    embedCalls     \* the embed/embedBatch calls made so far, in order

embedVars == <<initPromise, loads, extractor, embedCalls>>

vars == <<rows, pending, clock, ncalls, ret, initPromise, loads, extractor, embedCalls>>

\* ------------------------------------------------------------------ bounds

MaxIds == 2
MaxCalls == 2

\* ------------------------------------------------------------- value sets

NULL == "<null>"

Ids == 1..MaxIds

\* Scope arguments a caller can pass: absent, empty, the global bucket's own
\* name, project names, the wildcard.
ScopeArgs == {NULL, "", "global", "A", "B", "*"}

Queries == {"q1", "q2"}

\* Tag filters for list, and the two of them retrieve is called with.
TagLists == {<<>>, <<"x">>, <<"Y">>, <<"x", "y">>, <<"x", "z">>}

RetrieveTagLists == {<<>>, <<"Y">>}

\* The calls under study give each new id (a fresh nanoid) its own content
\* and tags.
ContentOf(id) ==
    CASE id = 1 -> "c1"
      [] id = 2 -> "c2"
      [] OTHER -> "c3"

TagsOf(id) ==
    CASE id = 1 -> <<"x">>
      [] id = 2 -> <<"X", "y">>
      [] OTHER -> <<>>

EntriesWith(keys) ==
    {[id |-> i, key |-> k, content |-> ContentOf(i), tags |-> TagsOf(i)] :
        i \in Ids, k \in keys}

\* ------------------------------------------------------ helpers (pure code)

\* SQLite lower() and String.prototype.toLowerCase on the modelled alphabet.
lower(s) ==
    CASE s = "K" -> "k"
      [] s = "X" -> "x"
      [] s = "Y" -> "y"
      [] OTHER -> s

\* JavaScript truthiness of an optional string: null, undefined and "" are falsy.
Truthy(s) == s # NULL /\ s # ""

\* Mutant: scope ?? "global", which lets the empty string through.
normaliseScopeNullOnly(scope) ==
    IF scope = NULL THEN "global" ELSE scope

normaliseScope(scope) ==
    IF ~Truthy(scope) \/ scope = "" THEN "global" ELSE scope

rowToEntry(row) ==
    [id |-> row.id,
     key |-> row.key,
     content |-> row.content,
     tags |-> row.tags,
     createdAt |-> row.created_at,
     updatedAt |-> row.updated_at]

SeqRange(s) == {s[i] : i \in 1..Len(s)}

MapLower(s) == [i \in 1..Len(s) |-> lower(s[i])]

\* Mutant: Array.prototype.some in place of every.
hasSomeTag(entryTags, filterTags) ==
    IF Len(filterTags) = 0 THEN TRUE
    ELSE LET lowerTags == MapLower(entryTags)
         IN  \E i \in 1..Len(filterTags) :
                 lower(filterTags[i]) \in SeqRange(lowerTags)

hasAllTags(entryTags, filterTags) ==
    IF Len(filterTags) = 0 THEN TRUE
    ELSE LET lowerTags == MapLower(entryTags)
         IN  \A i \in 1..Len(filterTags) :
                 lower(filterTags[i]) \in SeqRange(lowerTags)

\* A BLOB: the float32 components with the byte length of the buffer.
NullBlob == [null |-> TRUE]

float32ToBuffer(arr) ==
    [null |-> FALSE, byteLength |-> 4 * Len(arr), data |-> arr]

bufferToFloat32(buf) ==
    SubSeq(buf.data, 1, buf.byteLength \div 4)

\* ------------------------------------------------------ similarity scorer

RECURSIVE SumProd(_, _, _)
SumProd(a, b, i) ==
    IF i > Len(a) THEN 0 ELSE a[i] * b[i] + SumProd(a, b, i + 1)

\* Math.sqrt on the perfect squares the modelled vectors produce.
Sqrt(n) == CHOOSE r \in 0..n : r * r <= n /\ (r + 1) * (r + 1) > n

cosineSimilarity(a, b) ==
    LET dot == SumProd(a, b, 1)
        normA == SumProd(a, a, 1)
        normB == SumProd(b, b, 1)
        denom == Sqrt(normA) * Sqrt(normB)
    IN  IF denom = 0 THEN 0 ELSE (100 * dot) \div denom

\* ---------------------------------------------------- embedding provider

\* extractor(text, {pooling: "mean", normalize: true}): the external model,
\* a fixed function from text to a unit vector.
Extract(text) ==
    CASE text = "c1" -> <<3, 4>>
      [] text = "c2" -> <<-3, 4>>
      [] text = "c3" -> <<0, -5>>
      [] text = "q1" -> <<5, 0>>
      [] text = "q2" -> <<0, 5>>

\* ----------------------------------------------------------- the table

\* Rows written before the embedding column existed: the migration of
\* init() adds the column, which reads NULL for them.
LegacyRow(id, scope, key) ==
    [id |-> id, scope |-> scope, key |-> key, content |-> ContentOf(id),
     tags |-> TagsOf(id), embedding |-> NullBlob,
     created_at |-> 0, updated_at |-> 0]

\* A row that store() inserted in an earlier session.
StoredRow(id, scope, key) ==
    [id |-> id, scope |-> scope, key |-> key, content |-> ContentOf(id),
     tags |-> TagsOf(id), embedding |-> float32ToBuffer(Extract(ContentOf(id))),
     created_at |-> 0, updated_at |-> 0]

\* init() opens the database file as earlier sessions left it.
InitialTables ==
    { {},
      { LegacyRow(1, "global", "k") },
      { LegacyRow(1, "A", NULL) },
      { StoredRow(1, "A", "k") } }

NoRet == [op |-> "none"]

Init ==
    /\ rows \in InitialTables
    /\ pending = {}
    /\ clock = 0
    /\ ncalls = 0
    /\ ret = NoRet
    /\ initPromise = 0
    /\ loads = <<>>
    /\ extractor = "null"
    /\ embedCalls = <<>>

\* Mutant: the lookup compares the key as written.
RowsByKeyCaseSensitive(scopeStr, key) ==
    {r \in rows : r.scope = scopeStr /\ r.key # NULL /\ r.key = key}

\* Mutant: the lookup matches the key in every scope.
RowsByKeyAnyScope(scopeStr, key) ==
    {r \in rows : r.key # NULL /\ lower(r.key) = lower(key)}

\* SELECT * FROM memories WHERE scope = ? AND lower(key) = lower(?)
\* (a NULL key compares to nothing).
RowsByKey(scopeStr, key) ==
    {r \in rows : r.scope = scopeStr /\ r.key # NULL /\ lower(r.key) = lower(key)}

\* A call is invoked: the model follows the first MaxCalls calls.
Invoke ==
    /\ ncalls < MaxCalls
    /\ ncalls' = ncalls + 1

\* ------------------------------------------------------------- store

\* store() up to its await: scope and timestamp are fixed before the
\* embedding is requested.  new Date() reads the clock, which has stood
\* still or moved on since it was last read.
StoreBegin(scope, entry) ==
    /\ Invoke
    /\ \E now \in {clock, clock + 1} :
          /\ clock' = now
          /\ pending' = pending \cup
                 {[scopeStr |-> normaliseScope(scope), now |-> now, entry |-> entry]}
    /\ ret' = NoRet
    /\ UNCHANGED rows

\* Mutant: a failed embedding is skipped and the row is written without one.
StoreFailWritesRow(c) ==
    /\ c \in pending
    /\ pending' = pending \ {c}
    /\ rows' = {r \in rows : r.id # c.entry.id} \cup
                {[id |-> c.entry.id, scope |-> c.scopeStr, key |-> c.entry.key,
                  content |-> c.entry.content, tags |-> c.entry.tags,
                  embedding |-> NullBlob, created_at |-> c.now,
                  updated_at |-> c.now]}
    /\ ret' = [op |-> "store", scope |-> c.scopeStr, entry |-> c.entry,
               now |-> c.now, ok |-> FALSE, error |-> "embed"]
    /\ UNCHANGED <<clock, ncalls>>

\* The embedding promise rejects: store() rejects with it.
StoreFail(c) ==
    /\ c \in pending
    /\ pending' = pending \ {c}
    /\ ret' = [op |-> "store", scope |-> c.scopeStr, entry |-> c.entry,
               now |-> c.now, ok |-> FALSE, error |-> "embed"]
    /\ UNCHANGED <<rows, clock, ncalls>>

\* Mutant: the new tags are appended to the old ones.
UpdatedRowMergeTags(existing, c, embeddingBlob) ==
    [existing EXCEPT !.key = c.entry.key,
                     !.content = c.entry.content,
                     !.tags = existing.tags \o c.entry.tags,
                     !.embedding = embeddingBlob,
                     !.updated_at = c.now]

\* Mutant: the UPDATE leaves the embedding column out.
UpdatedRowKeepEmbedding(existing, c, embeddingBlob) ==
    [existing EXCEPT !.key = c.entry.key,
                     !.content = c.entry.content,
                     !.tags = c.entry.tags,
                     !.updated_at = c.now]

UpdatedRow(existing, c, embeddingBlob) ==
    [existing EXCEPT !.key = c.entry.key,
                     !.content = c.entry.content,
                     !.tags = c.entry.tags,
                     !.embedding = embeddingBlob,
                     !.updated_at = c.now]

InsertedRow(c, embeddingBlob) ==
    [id |-> c.entry.id,
     scope |-> c.scopeStr,
     key |-> c.entry.key,
     content |-> c.entry.content,
     tags |-> c.entry.tags,
     embedding |-> embeddingBlob,
     created_at |-> c.now,
     updated_at |-> c.now]

\* Mutant: the returned entry is built from the caller's entry, id included.
ReturnedOnUpdateCallersId(existing, c, embeddingBlob) ==
    [rowToEntry(UpdatedRow(existing, c, embeddingBlob)) EXCEPT !.id = c.entry.id]

\* return rowToEntry({...existing, key, content, tags, embedding, updated_at})
ReturnedOnUpdate(existing, c, embeddingBlob) ==
    rowToEntry(UpdatedRow(existing, c, embeddingBlob))

\* Mutant: the id column is not declared PRIMARY KEY.
PrimaryKeyNotDeclared(id) == FALSE

\* id TEXT PRIMARY KEY: an INSERT of an id the table holds is refused.
PrimaryKeyTaken(id) == \E r \in rows : r.id = id

\* The embedding promise resolves: the rest of store() runs to its end
\* without suspending.
StoreFinish(c) ==
    /\ c \in pending
    /\ pending' = pending \ {c}
    /\ LET embeddingBlob == float32ToBuffer(Extract(c.entry.content))
           matches == IF Truthy(c.entry.key)
                      THEN RowsByKey(c.scopeStr, c.entry.key) ELSE {}
       IN  IF matches # {}
           THEN \E existing \in matches :
                  LET updated == UpdatedRow(existing, c, embeddingBlob)
                  IN  /\ rows' = {IF r.id = existing.id THEN updated ELSE r : r \in rows}
                      /\ ret' = [op |-> "store", scope |-> c.scopeStr,
                                 entry |-> c.entry, now |-> c.now, ok |-> TRUE,
                                 path |-> "update",
                                 value |-> ReturnedOnUpdate(existing, c, embeddingBlob)]
           ELSE IF PrimaryKeyTaken(c.entry.id)
                THEN \* PRIMARY KEY constraint: the INSERT throws
                     /\ rows' = rows
                     /\ ret' = [op |-> "store", scope |-> c.scopeStr,
                                entry |-> c.entry, now |-> c.now, ok |-> FALSE,
                                error |-> "constraint"]
                ELSE /\ rows' = rows \cup {InsertedRow(c, embeddingBlob)}
                     /\ ret' = [op |-> "store", scope |-> c.scopeStr,
                                entry |-> c.entry, now |-> c.now, ok |-> TRUE,
                                path |-> "insert",
                                value |-> [id |-> c.entry.id,
                                           key |-> c.entry.key,
                                           content |-> c.entry.content,
                                           tags |-> c.entry.tags,
                                           createdAt |-> c.now,
                                           updatedAt |-> c.now]]
    /\ UNCHANGED <<clock, ncalls>>

\* ------------------------------------------------------- list / retrieve

\* Mutant: the WHERE clause is dropped for every scope.
SelectRowsAnyScope(scope) == rows

\* Mutant: the wildcard is matched like a project name.
SelectRowsNoWildcard(scope) ==
    {r \in rows : r.scope = normaliseScope(scope)}

\* SELECT * FROM memories [WHERE scope = ?]: the wildcard is recognised on
\* the scope as passed, every other scope is matched after normalisation.
SelectRows(scope) ==
    IF scope = "*" THEN rows
    ELSE {r \in rows : r.scope = normaliseScope(scope)}

\* Mutant: ORDER BY updated_at ASC.
OrderByUpdatedAsc(S) ==
    LET n == Cardinality(S)
    IN  {s \in [1..n -> S] :
            /\ \A i, j \in 1..n : i # j => s[i] # s[j]
            /\ \A i \in 1..(n - 1) : s[i].updated_at <= s[i + 1].updated_at}

\* ORDER BY updated_at DESC: every order of the rows in which updated_at
\* never increases (SQL leaves the order of equal timestamps open).
OrderByUpdatedDesc(S) ==
    LET n == Cardinality(S)
    IN  {s \in [1..n -> S] :
            /\ \A i, j \in 1..n : i # j => s[i] # s[j]
            /\ \A i \in 1..(n - 1) : s[i].updated_at >= s[i + 1].updated_at}

RECURSIVE FilterByTags(_, _)
FilterByTags(rs, tags) ==
    IF rs = <<>> THEN <<>>
    ELSE IF hasAllTags(Head(rs).tags, tags)
         THEN <<Head(rs)>> \o FilterByTags(Tail(rs), tags)
         ELSE FilterByTags(Tail(rs), tags)

MapRowToEntry(rs) == [i \in 1..Len(rs) |-> rowToEntry(rs[i])]

list(scope, tags) ==
    /\ LET selected == SelectRows(scope)
       IN  \E ordered \in OrderByUpdatedDesc(selected) :
          ret' = [op |-> "list", scope |-> scope, tags |-> tags, ok |-> TRUE,
                  value |-> IF Len(tags) = 0 THEN MapRowToEntry(ordered)
                            ELSE MapRowToEntry(FilterByTags(ordered, tags))]
    /\ Invoke
    /\ UNCHANGED <<rows, pending, clock>>

\* Mutant: a row without an embedding is ranked with score 0.
RECURSIVE ScoredZeroForMissing(_, _, _)
ScoredZeroForMissing(rs, tags, queryVec) ==
    IF rs = <<>> THEN <<>>
    ELSE LET row == Head(rs)
             rest == ScoredZeroForMissing(Tail(rs), tags, queryVec)
         IN  IF ~hasAllTags(row.tags, tags) THEN rest
             ELSE <<[entry |-> rowToEntry(row),
                     score |-> IF row.embedding = NullBlob THEN 0
                               ELSE cosineSimilarity(queryVec,
                                        bufferToFloat32(row.embedding))]>>
                  \o rest

\* The loop of retrieve(): rows that carry all filter tags and an embedding,
\* each with its score against the query vector.
RECURSIVE Scored(_, _, _)
Scored(rs, tags, queryVec) ==
    IF rs = <<>> THEN <<>>
    ELSE LET row == Head(rs)
             rest == Scored(Tail(rs), tags, queryVec)
         IN  IF ~hasAllTags(row.tags, tags) THEN rest
             ELSE IF row.embedding = NullBlob THEN rest
             ELSE <<[entry |-> rowToEntry(row),
                     score |-> cosineSimilarity(queryVec,
                                                bufferToFloat32(row.embedding))]>>
                  \o rest

\* Mutant: the comparator is a.score - b.score.
RECURSIVE InsertByScoreAscending(_, _)
InsertByScoreAscending(x, sorted) ==
    IF sorted = <<>> THEN <<x>>
    ELSE IF Head(sorted).score <= x.score
         THEN <<Head(sorted)>> \o InsertByScoreAscending(x, Tail(sorted))
         ELSE <<x>> \o sorted

\* Mutant: an unstable sort, x goes in front of the elements of equal score.
RECURSIVE InsertByScoreBeforeEqual(_, _)
InsertByScoreBeforeEqual(x, sorted) ==
    IF sorted = <<>> THEN <<x>>
    ELSE IF Head(sorted).score > x.score
         THEN <<Head(sorted)>> \o InsertByScoreBeforeEqual(x, Tail(sorted))
         ELSE <<x>> \o sorted

\* One step of Array.prototype.sort with (a, b) => b.score - a.score, which
\* is stable: x goes behind every element whose score is not lower.
RECURSIVE InsertByScore(_, _)
InsertByScore(x, sorted) ==
    IF sorted = <<>> THEN <<x>>
    ELSE IF Head(sorted).score >= x.score
         THEN <<Head(sorted)>> \o InsertByScore(x, Tail(sorted))
         ELSE <<x>> \o sorted

RECURSIVE SortByScoreDesc(_)
SortByScoreDesc(scored) ==
    IF scored = <<>> THEN <<>>
    ELSE InsertByScore(scored[Len(scored)],
                       SortByScoreDesc(SubSeq(scored, 1, Len(scored) - 1)))

\* Array.prototype.slice(0, limit) for limit >= 0.
Slice(s, limit) == SubSeq(s, 1, IF limit < Len(s) THEN limit ELSE Len(s))

DefaultLimit == 20

\* Mutant: the slice is taken before the sort.
TopKSliceFirst(scored, limit) ==
    LET top == SortByScoreDesc(Slice(scored, limit))
    IN  [i \in 1..Len(top) |-> top[i].entry]

TopK(scored, limit) ==
    LET top == Slice(SortByScoreDesc(scored), limit)
    IN  [i \in 1..Len(top) |-> top[i].entry]

\* retrieve() from the moment the query embedding resolves; the table is
\* read only then.
retrieve(scope, query, tags, limit) ==
    /\ LET selected == SelectRows(scope)
       IN  \E ordered \in OrderByUpdatedDesc(selected) :
          ret' = [op |-> "retrieve", scope |-> scope, query |-> query,
                  tags |-> tags, limit |-> limit, ok |-> TRUE,
                  value |-> TopK(Scored(ordered, tags, Extract(query)),
                                 IF limit = <<>> THEN DefaultLimit ELSE limit[1])]
    /\ Invoke
    /\ UNCHANGED <<rows, pending, clock>>

\* The query embedding rejects: retrieve() rejects with it.
RetrieveFail(scope, query, tags, limit) ==
    /\ ret' = [op |-> "retrieve", scope |-> scope, query |-> query,
               tags |-> tags, limit |-> limit, ok |-> FALSE, error |-> "embed"]
    /\ Invoke
    /\ UNCHANGED <<rows, pending, clock>>

\* The retrieve_memories tool.  Its schema takes the limit as
\* z.number().int().positive().max(100).optional().default(20); the handler
\* passes project ?? null and the limit, 20 when none was given.
MaxLimit == 100

ToolDefaultLimit == 20

\* Mutant: the schema of the limit has no max(100).
retrieveSchemaLimitNoMax(limit) ==
    IF limit = <<>> THEN TRUE ELSE limit[1] > 0

retrieveSchemaLimit(limit) ==
    IF limit = <<>> THEN TRUE ELSE limit[1] > 0 /\ limit[1] <= MaxLimit

registerRetrieveTool(project, query, tags, limit) ==
    /\ retrieveSchemaLimit(limit)
    /\ retrieve(project, query, tags,
                IF limit = <<>> THEN <<ToolDefaultLimit>> ELSE limit)

\* ---------------------------------------------------- delete / rename

\* Mutant: the wildcard matches the id in every scope, as it does for reads.
deleteWildcardAll(scope, id) ==
    LET scopeStr == normaliseScope(scope)
        hit == {r \in rows : (scope = "*" \/ r.scope = scopeStr) /\ r.id = id}
    IN  /\ rows' = rows \ hit
        /\ ret' = [op |-> "delete", scope |-> scope, id |-> id, ok |-> TRUE,
                   value |-> (Cardinality(hit) > 0)]
        /\ Invoke
        /\ UNCHANGED <<pending, clock>>

\* Mutant: DELETE FROM memories WHERE id = ?, whatever the scope.
deleteAnyScope(scope, id) ==
    LET hit == {r \in rows : r.id = id}
    IN  /\ rows' = rows \ hit
        /\ ret' = [op |-> "delete", scope |-> scope, id |-> id, ok |-> TRUE,
                   value |-> (Cardinality(hit) > 0)]
        /\ Invoke
        /\ UNCHANGED <<pending, clock>>

delete(scope, id) ==
    LET scopeStr == normaliseScope(scope)
        hit == {r \in rows : r.scope = scopeStr /\ r.id = id}
    IN  /\ rows' = rows \ hit
        /\ ret' = [op |-> "delete", scope |-> scope, id |-> id, ok |-> TRUE,
                   value |-> (Cardinality(hit) > 0)]
        /\ Invoke
        /\ UNCHANGED <<pending, clock>>

CountScope(name) == Cardinality({r \in rows : r.scope = name})

\* Mutant: the check of the new name is missing, the rows are merged.
renameProjectMerge(oldName, newName) ==
    /\ IF CountScope(oldName) = 0
       THEN /\ rows' = rows
            /\ ret' = [op |-> "rename", oldName |-> oldName, newName |-> newName,
                       ok |-> TRUE, value |-> FALSE]
       ELSE /\ rows' = {IF r.scope = oldName THEN [r EXCEPT !.scope = newName]
                        ELSE r : r \in rows}
            /\ ret' = [op |-> "rename", oldName |-> oldName, newName |-> newName,
                       ok |-> TRUE, value |-> TRUE]
    /\ Invoke
    /\ UNCHANGED <<pending, clock>>

\* Mutant: the new name is checked before the old one.
renameProjectConflictFirst(oldName, newName) ==
    /\ IF CountScope(newName) > 0
       THEN /\ rows' = rows
            /\ ret' = [op |-> "rename", oldName |-> oldName, newName |-> newName,
                       ok |-> FALSE, error |-> "exists"]
       ELSE IF CountScope(oldName) = 0
       THEN /\ rows' = rows
            /\ ret' = [op |-> "rename", oldName |-> oldName, newName |-> newName,
                       ok |-> TRUE, value |-> FALSE]
       ELSE /\ rows' = {IF r.scope = oldName THEN [r EXCEPT !.scope = newName]
                        ELSE r : r \in rows}
            /\ ret' = [op |-> "rename", oldName |-> oldName, newName |-> newName,
                       ok |-> TRUE, value |-> TRUE]
    /\ Invoke
    /\ UNCHANGED <<pending, clock>>

\* Mutant: a rename of a name to itself is not taken for a conflict.
renameProjectSelfAllowed(oldName, newName) ==
    /\ IF CountScope(oldName) = 0
       THEN /\ rows' = rows
            /\ ret' = [op |-> "rename", oldName |-> oldName, newName |-> newName,
                       ok |-> TRUE, value |-> FALSE]
       ELSE IF newName # oldName /\ CountScope(newName) > 0
       THEN /\ rows' = rows
            /\ ret' = [op |-> "rename", oldName |-> oldName, newName |-> newName,
                       ok |-> FALSE, error |-> "exists"]
       ELSE /\ rows' = {IF r.scope = oldName THEN [r EXCEPT !.scope = newName]
                        ELSE r : r \in rows}
            /\ ret' = [op |-> "rename", oldName |-> oldName, newName |-> newName,
                       ok |-> TRUE, value |-> TRUE]
    /\ Invoke
    /\ UNCHANGED <<pending, clock>>

\* Mutant: the UPDATE also stamps the moved rows.
renameProjectTouch(oldName, newName) ==
    /\ IF CountScope(oldName) = 0
       THEN /\ rows' = rows
            /\ ret' = [op |-> "rename", oldName |-> oldName, newName |-> newName,
                       ok |-> TRUE, value |-> FALSE]
       ELSE IF CountScope(newName) > 0
       THEN /\ rows' = rows
            /\ ret' = [op |-> "rename", oldName |-> oldName, newName |-> newName,
                       ok |-> FALSE, error |-> "exists"]
       ELSE /\ rows' = {IF r.scope = oldName
                        THEN [r EXCEPT !.scope = newName,
                                       !.updated_at = r.updated_at + 1]
                        ELSE r : r \in rows}
            /\ ret' = [op |-> "rename", oldName |-> oldName, newName |-> newName,
                       ok |-> TRUE, value |-> TRUE]
    /\ Invoke
    /\ UNCHANGED <<pending, clock>>

renameProject(oldName, newName) ==
    /\ IF CountScope(oldName) = 0
       THEN /\ rows' = rows
            /\ ret' = [op |-> "rename", oldName |-> oldName, newName |-> newName,
                       ok |-> TRUE, value |-> FALSE]
       ELSE IF CountScope(newName) > 0
       THEN /\ rows' = rows
            /\ ret' = [op |-> "rename", oldName |-> oldName, newName |-> newName,
                       ok |-> FALSE, error |-> "exists"]
       ELSE /\ rows' = {IF r.scope = oldName THEN [r EXCEPT !.scope = newName]
                        ELSE r : r \in rows}
            /\ ret' = [op |-> "rename", oldName |-> oldName, newName |-> newName,
                       ok |-> TRUE, value |-> TRUE]
    /\ Invoke
    /\ UNCHANGED <<pending, clock>>

\* The rename_project tool: its input schema (both names z.string().min(1))
\* admits the call, which goes to the backend unchanged.
\* Mutant: both names are z.string() without min(1).
renameProjectSchemaNoMin(old_name, new_name) ==
    /\ old_name # NULL
    /\ new_name # NULL

renameProjectSchema(old_name, new_name) ==
    /\ old_name # NULL /\ old_name # ""
    /\ new_name # NULL /\ new_name # ""

registerRenameProjectTool(old_name, new_name) ==
    /\ renameProjectSchema(old_name, new_name)
    /\ renameProject(old_name, new_name)

\* ------------------------------------------------- embedding service

\* this.initPromise = this._init(): _init() runs up to its await of the
\* pipeline factory and returns a new pending promise.
StartInit ==
    /\ loads' = Append(loads, "pending")
    /\ initPromise' = Len(loads) + 1

warmUp ==
    /\ IF initPromise = 0 THEN StartInit ELSE UNCHANGED <<initPromise, loads>>
    /\ UNCHANGED <<rows, pending, clock, ncalls, ret, extractor, embedCalls>>

\* Mutant: every call starts a load of its own.
ensureReadyNoMemo == StartInit

\* ensureReady() up to `await this.initPromise`.
ensureReady ==
    IF initPromise = 0 THEN StartInit ELSE UNCHANGED <<initPromise, loads>>

\* embed()/embedBatch() up to the await inside ensureReady(): the call now
\* waits for the promise initPromise holds at this moment.  loadAtCall
\* records the state of that promise at the moment of the call.
EmbedCall(fn, input, owner) ==
    /\ Len(embedCalls) < MaxCalls
    /\ ensureReady
    /\ embedCalls' = Append(embedCalls,
           owner @@ [fn |-> fn, input |-> <<input>>, pc |-> "awaitInit",
                     awaits |-> initPromise',
                     loadAtCall |-> loads'[initPromise']])
    /\ UNCHANGED extractor

\* The pipeline factory resolves: _init() stores the extractor and its
\* promise is fulfilled.
LoadResolve(i) ==
    /\ loads[i] = "pending"
    /\ loads' = [loads EXCEPT ![i] = "fulfilled"]
    /\ extractor' = "loaded"
    /\ UNCHANGED <<rows, pending, clock, ncalls, ret, initPromise, embedCalls>>

\* Mutant: a failed load clears initPromise, so that the next call loads
\* again.
LoadRejectAndForget(i) ==
    /\ loads[i] = "pending"
    /\ loads' = [loads EXCEPT ![i] = "rejected"]
    /\ initPromise' = 0
    /\ UNCHANGED <<rows, pending, clock, ncalls, ret, extractor, embedCalls>>

\* The pipeline factory rejects: _init() throws at its await and its
\* promise is rejected; initPromise keeps holding it.  (A rejection that no
\* call awaits may end the process; the model follows it while it runs.)
LoadReject(i) ==
    /\ loads[i] = "pending"
    /\ loads' = [loads EXCEPT ![i] = "rejected"]
    /\ UNCHANGED <<rows, pending, clock, ncalls, ret, initPromise, extractor,
                   embedCalls>>

RECURSIVE Concat(_)
Concat(ss) == IF ss = <<>> THEN <<>> ELSE Head(ss) \o Concat(Tail(ss))

\* What embed() returns: output.data of the extractor run on one text.
embedValue(text) == Extract(text)

\* What embedBatch() returns: output.data of the one batched run, cut into
\* texts.length slices of equal length.
embedBatchValue(texts) ==
    LET data == Concat([i \in 1..Len(texts) |-> Extract(texts[i])])
        dims == Len(data) \div Len(texts)
    IN  [i \in 1..Len(texts) |-> SubSeq(data, (i - 1) * dims + 1, i * dims)]

\* The caller of a resolved embed(): store() and retrieve() run on, a direct
\* caller gets the value.
CallerResumes(e) ==
    CASE e.owner = "store" -> StoreFinish(e.c)
      [] e.owner = "retrieve" ->
            retrieve(e.args[1], e.args[2], e.args[3], e.args[4])
      [] OTHER ->
            /\ ret' = [op |-> e.fn, ok |-> TRUE,
                       value |-> IF e.fn = "embed" THEN embedValue(e.input[1])
                                 ELSE embedBatchValue(e.input[1])]
            /\ UNCHANGED <<rows, pending, clock, ncalls>>

\* The caller of a rejected embed(): its own promise rejects.
CallerRejects(e) ==
    CASE e.owner = "store" -> StoreFail(e.c)
      [] e.owner = "retrieve" ->
            RetrieveFail(e.args[1], e.args[2], e.args[3], e.args[4])
      [] OTHER ->
            /\ ret' = [op |-> e.fn, ok |-> FALSE, error |-> "embed"]
            /\ UNCHANGED <<rows, pending, clock, ncalls>>

\* store() called with the embedding service behind it: the synchronous
\* head of store() ends in the call of embed(entry.content).
StoreCallsEmbed(scope, entry) ==
    /\ StoreBegin(scope, entry)
    /\ EmbedCall("embed", entry.content,
                 [owner |-> "store",
                  c |-> [scopeStr |-> normaliseScope(scope), now |-> clock',
                         entry |-> entry]])

\* retrieve() starts with the call of embed(query).
RetrieveCallsEmbed(scope, query, tags, limit) ==
    /\ EmbedCall("embed", query,
                 [owner |-> "retrieve", args |-> <<scope, query, tags, limit>>])
    /\ ret' = NoRet
    /\ UNCHANGED <<rows, pending, clock, ncalls>>

\* embed() and embedBatch() called on the service directly.
embed(text) ==
    /\ EmbedCall("embed", text, [owner |-> "none"])
    /\ ret' = NoRet
    /\ UNCHANGED <<rows, pending, clock, ncalls>>

embedBatch(texts) ==
    /\ EmbedCall("embedBatch", texts, [owner |-> "none"])
    /\ ret' = NoRet
    /\ UNCHANGED <<rows, pending, clock, ncalls>>

\* Mutant: ensureReady() does not await the load.
EnsureReadyReturnsEarly(n) ==
    /\ n \in 1..Len(embedCalls)
    /\ embedCalls[n].pc = "awaitInit"
    /\ embedCalls' = [embedCalls EXCEPT ![n] =
                         [pc |-> "awaitExtract", used |-> extractor] @@ @]
    /\ UNCHANGED <<rows, pending, clock, ncalls, ret, initPromise, loads, extractor>>

\* `await this.initPromise` returns: ensureReady() hands this.extractor to
\* the call, which invokes it.
EnsureReadyReturns(n) ==
    /\ n \in 1..Len(embedCalls)
    /\ embedCalls[n].pc = "awaitInit"
    /\ loads[embedCalls[n].awaits] = "fulfilled"
    /\ embedCalls' = [embedCalls EXCEPT ![n] =
                         [pc |-> "awaitExtract", used |-> extractor] @@ @]
    /\ UNCHANGED <<rows, pending, clock, ncalls, ret, initPromise, loads, extractor>>

\* Mutant: a call that finds the load rejected starts a new load and waits
\* again.
EnsureReadyThrowsAndRetries(n) ==
    /\ n \in 1..Len(embedCalls)
    /\ embedCalls[n].pc = "awaitInit"
    /\ loads[embedCalls[n].awaits] = "rejected"
    /\ StartInit
    /\ embedCalls' = [embedCalls EXCEPT ![n].awaits = initPromise']
    /\ UNCHANGED <<rows, pending, clock, ncalls, ret, extractor>>

\* `await this.initPromise` throws: the call rejects, and its caller with it.
EnsureReadyThrows(n) ==
    /\ n \in 1..Len(embedCalls)
    /\ embedCalls[n].pc = "awaitInit"
    /\ loads[embedCalls[n].awaits] = "rejected"
    /\ embedCalls' = [embedCalls EXCEPT ![n] = [pc |-> "rejected"] @@ @]
    /\ CallerRejects(embedCalls[n])
    /\ UNCHANGED <<initPromise, loads, extractor>>

\* The extractor run resolves: the call returns its vector(s).
ExtractorResolves(n) ==
    /\ n \in 1..Len(embedCalls)
    /\ embedCalls[n].pc = "awaitExtract"
    /\ embedCalls[n].used = "loaded"
    /\ embedCalls' = [embedCalls EXCEPT ![n] = [pc |-> "resolved"] @@ @]
    /\ CallerResumes(embedCalls[n])
    /\ UNCHANGED <<initPromise, loads, extractor>>

\* The extractor run rejects (or the extractor handed over is null and the
\* invocation throws): the call rejects, and its caller with it.
ExtractorRejects(n) ==
    /\ n \in 1..Len(embedCalls)
    /\ embedCalls[n].pc = "awaitExtract"
    /\ embedCalls' = [embedCalls EXCEPT ![n] = [pc |-> "rejected"] @@ @]
    /\ CallerRejects(embedCalls[n])
    /\ UNCHANGED <<initPromise, loads, extractor>>

\* ------------------------------------------------------- specification

\* An optional limit: <<>> when the caller gives none, <<n>> otherwise.
Limits == {<<>>, <<1>>, <<2>>}

\* The write path: store, delete and rename, store calls overlapping.  The
\* embedding of a store is left open here: it resolves or it rejects.
StoreScopes == {NULL, "", "A", "*"}

StoreKeys == {NULL, "k", "K"}

DeleteScopes == {NULL, "A", "*"}

Renames ==
    { <<"A", "B">>, <<"A", "global">>, <<"global", "A">>, <<"A", "A">>,
      <<"A", "*">>, <<"*", "A">>, <<"A", "">>, <<"", "A">>, <<"B", "A">> }

Next ==
    \/ \E scope \in StoreScopes, entry \in EntriesWith(StoreKeys) :
          StoreBegin(scope, entry) /\ UNCHANGED embedVars
    \/ \E c \in pending : StoreFinish(c) /\ UNCHANGED embedVars
    \/ \E c \in pending : StoreFail(c) /\ UNCHANGED embedVars
    \/ \E scope \in DeleteScopes, id \in Ids :
          delete(scope, id) /\ UNCHANGED embedVars
    \/ \E r \in Renames :
          registerRenameProjectTool(r[1], r[2]) /\ UNCHANGED embedVars

Spec == Init /\ [][Next]_vars

\* The read path: list and retrieve over tables built by a narrower set of
\* writes.
QueryScopes == {NULL, "A", "B", "*"}

NextQuery ==
    \/ \E scope \in StoreScopes, entry \in EntriesWith({NULL}) :
          StoreBegin(scope, entry) /\ UNCHANGED embedVars
    \/ \E c \in pending : StoreFinish(c) /\ UNCHANGED embedVars
    \/ \E c \in pending : StoreFail(c) /\ UNCHANGED embedVars
    \/ \E scope \in QueryScopes, tags \in TagLists :
          list(scope, tags) /\ UNCHANGED embedVars
    \/ \E scope \in QueryScopes, query \in Queries, tags \in RetrieveTagLists,
          limit \in Limits :
          retrieve(scope, query, tags, limit) /\ UNCHANGED embedVars
    \/ \E scope \in QueryScopes :
          RetrieveFail(scope, "q1", <<>>, <<>>) /\ UNCHANGED embedVars
    \/ registerRenameProjectTool("A", "B") /\ UNCHANGED embedVars

SpecQuery == Init /\ [][NextQuery]_vars

\* The embedding service under store, retrieve and direct calls.  Every
\* store of the session carries a fresh id.
FreshEntry ==
    LET id == Len(embedCalls) + 1
    IN  [id |-> id, key |-> NULL, content |-> ContentOf(id), tags |-> TagsOf(id)]

NextEmbed ==
    \/ warmUp
    \/ StoreCallsEmbed("A", FreshEntry)
    \/ RetrieveCallsEmbed("A", "q1", <<>>, <<>>)
    \/ embed("q2")
    \/ embedBatch(<<"q1", "c2">>)
    \/ \E i \in 1..Len(loads) : LoadResolve(i)
    \/ \E i \in 1..Len(loads) : LoadReject(i)
    \/ \E n \in 1..Len(embedCalls) : EnsureReadyReturns(n)
    \/ \E n \in 1..Len(embedCalls) : EnsureReadyThrows(n)
    \/ \E n \in 1..Len(embedCalls) : ExtractorResolves(n)
    \/ \E n \in 1..Len(embedCalls) : ExtractorRejects(n)

\* The service is exercised on a database that starts empty.
InitEmbed == Init /\ rows = {}

SpecEmbed == InitEmbed /\ [][NextEmbed]_vars

\* The event loop runs every continuation that is ready, and the pipeline
\* factory and each extractor run settle.
EmbedFairness ==
    /\ WF_vars(\E i \in 1..Len(loads) : LoadResolve(i) \/ LoadReject(i))
    /\ WF_vars(\E n \in 1..Len(embedCalls) : EnsureReadyReturns(n))
    /\ WF_vars(\E n \in 1..Len(embedCalls) : EnsureReadyThrows(n))
    /\ WF_vars(\E n \in 1..Len(embedCalls) :
                  ExtractorResolves(n) \/ ExtractorRejects(n))

SpecEmbedFair == SpecEmbed /\ EmbedFairness

\* The global bucket under each of its names.
GlobalAliases == {NULL, "", "global"}

NextGlobal ==
    \/ \E scope \in GlobalAliases, entry \in EntriesWith({NULL, "k"}) :
          StoreBegin(scope, entry) /\ UNCHANGED embedVars
    \/ \E c \in pending : StoreFinish(c) /\ UNCHANGED embedVars
    \/ \E c \in pending : StoreFail(c) /\ UNCHANGED embedVars
    \/ \E scope \in GlobalAliases : list(scope, <<>>) /\ UNCHANGED embedVars
    \/ \E scope \in GlobalAliases :
          retrieve(scope, "q1", <<>>, <<>>) /\ UNCHANGED embedVars
    \/ \E scope \in GlobalAliases, id \in Ids :
          delete(scope, id) /\ UNCHANGED embedVars

SpecGlobal == Init /\ [][NextGlobal]_vars

\* Stores issued one after the other on a database that starts empty: a
\* call begins only when no store is in flight.
NextSequential ==
    \/ \E scope \in {NULL, "A"}, entry \in EntriesWith(StoreKeys) :
          pending = {} /\ StoreBegin(scope, entry) /\ UNCHANGED embedVars
    \/ \E c \in pending : StoreFinish(c) /\ UNCHANGED embedVars
    \/ \E c \in pending : StoreFail(c) /\ UNCHANGED embedVars

SpecSequential == InitEmbed /\ [][NextSequential]_vars

\* retrieve_memories called with limits inside and outside its schema.
ToolLimits == {<<>>, <<0>>, <<1>>, <<ToolDefaultLimit>>, <<MaxLimit>>, <<MaxLimit + 1>>}

NextRetrieveTool ==
    \/ \E scope \in {NULL, "A"}, entry \in EntriesWith({NULL}) :
          StoreBegin(scope, entry) /\ UNCHANGED embedVars
    \/ \E c \in pending : StoreFinish(c) /\ UNCHANGED embedVars
    \/ \E c \in pending : StoreFail(c) /\ UNCHANGED embedVars
    \/ \E project \in {NULL, "*"}, query \in Queries, limit \in ToolLimits :
          registerRetrieveTool(project, query, <<>>, limit) /\ UNCHANGED embedVars

SpecRetrieveTool == Init /\ [][NextRetrieveTool]_vars

\* ------------------------------------------------------------ properties

RowById(id) == CHOOSE r \in rows : r.id = id

IdsOf(entries) == {entries[i].id : i \in 1..Len(entries)}

HasEmbedding(r) == r.embedding # NullBlob

\* The score retrieve() gives the row with this id for this query.
ScoreOf(query, id) ==
    cosineSimilarity(Extract(query), bufferToFloat32(RowById(id).embedding))

StoreReturned == ret.op = "store" /\ ret.ok

\* C1: in every reachable state no two entries of one scope have non-empty
\* keys that are equal when compared case-insensitively.
C1_KeyUniquePerScope ==
    \A r1, r2 \in rows :
        (r1 # r2 /\ r1.scope = r2.scope /\ Truthy(r1.key) /\ Truthy(r2.key))
            => lower(r1.key) # lower(r2.key)

\* A store with key "K" has just updated, while another store was in
\* flight, the row another id had stored under that key.
C1_Witness ==
    /\ StoreReturned
    /\ ret.path = "update"
    /\ ret.entry.key = "K"
    /\ ret.value.id # ret.entry.id
    /\ pending # {}

\* C2: a store whose non-empty key matches an existing entry of the resolved
\* scope adds no row; the entry keeps id, createdAt and scope, takes exactly
\* the content and tags of the call, and the returned entry carries the
\* existing id.
C2_UpsertInPlace ==
    [][\A c \in pending :
          (StoreFinish(c) /\ Truthy(c.entry.key)
                /\ RowsByKey(c.scopeStr, c.entry.key) # {})
          => \E e \in RowsByKey(c.scopeStr, c.entry.key) :
                /\ {r.id : r \in rows'} = {r.id : r \in rows}
                /\ Cardinality(rows') = Cardinality(rows)
                /\ rows' \ {r \in rows' : r.id = e.id} = rows \ {e}
                /\ \E u \in rows' :
                      /\ u.id = e.id
                      /\ u.created_at = e.created_at
                      /\ u.scope = e.scope
                      /\ u.content = c.entry.content
                      /\ u.tags = c.entry.tags
                /\ ret'.ok
                /\ ret'.value.id = e.id
                /\ ret'.value.content = c.entry.content
                /\ ret'.value.tags = c.entry.tags
                /\ ret'.value.createdAt = e.created_at]_vars

\* An upsert has replaced the content and the tags of a row stored under
\* another id at an earlier time.
C2_Witness ==
    /\ StoreReturned
    /\ ret.path = "update"
    /\ ret.value.id # ret.entry.id
    /\ ret.value.content # ContentOf(ret.value.id)
    /\ ret.value.tags # TagsOf(ret.value.id)
    /\ ret.value.createdAt < ret.value.updatedAt
    /\ RowById(ret.value.id).content = ret.entry.content

\* C3: list and retrieve called with a non-wildcard scope never return an
\* entry stored under a scope other than the one the call resolves to.
C3_ScopeIsolation ==
    (ret.op \in {"list", "retrieve"} /\ ret.ok /\ ret.scope # "*")
        => \A r \in rows :
              r.scope # normaliseScope(ret.scope) => r.id \notin IdsOf(ret.value)

\* retrieve for project "A" returned an entry while the global bucket held
\* a row that could have been ranked.
C3_Witness ==
    /\ ret.op = "retrieve" /\ ret.ok
    /\ ret.scope = "A"
    /\ ret.tags = <<>>
    /\ Len(ret.value) = 1
    /\ \E r \in rows : r.scope = "global" /\ HasEmbedding(r)

\* C4: list with the wildcard scope and no tag filter returns every stored
\* entry: exactly the union of what list returns for each single scope.
C4_WildcardListsAll ==
    (ret.op = "list" /\ ret.scope = "*" /\ ret.tags = <<>>)
        => /\ Len(ret.value) = Cardinality(rows)
           /\ {ret.value[i] : i \in 1..Len(ret.value)} =
                UNION {{rowToEntry(r) : r \in SelectRows(sc)} :
                          sc \in {r.scope : r \in rows}}

\* The wildcard list returned entries of two scopes.
C4_Witness ==
    /\ ret.op = "list" /\ ret.scope = "*" /\ ret.tags = <<>>
    /\ Len(ret.value) = 2
    /\ \E r1, r2 \in rows : r1.scope = "global" /\ r2.scope # "global"

\* C5: a store whose scope is the wildcard "*" is rejected: it never
\* returns an entry and never writes a row with the stored scope "*".
C5_WildcardStoreRejected ==
    (ret.op = "store" /\ ret.scope = "*")
        => (~ret.ok /\ \A r \in rows : r.id = ret.entry.id => r.scope # "*")

\* C6: when the embedding of the content fails, the store call fails and
\* the table is exactly what it was before.
C6_FailedEmbeddingWritesNothing ==
    [][(ret'.op = "store" /\ ~ret'.ok /\ ret'.error = "embed") => rows' = rows]_vars

\* A store whose key matches a stored row failed on its embedding.
C6_Witness ==
    /\ ret.op = "store" /\ ~ret.ok /\ ret.error = "embed"
    /\ Truthy(ret.entry.key)
    /\ RowsByKey(ret.scope, ret.entry.key) # {}

\* A row of the initial table that predates embeddings and that no store
\* has written since (a rename may have moved it).
UntouchedLegacy(r) ==
    \E t \in InitialTables : \E l \in t :
        ~HasEmbedding(l) /\ [r EXCEPT !.scope = l.scope] = l

\* C7: the row a store call inserted or updated has an embedding, and the
\* only rows without one are legacy rows no store has touched.
C7_StoredRowsHaveEmbedding ==
    /\ StoreReturned => HasEmbedding(RowById(ret.value.id))
    /\ \A r \in rows : ~HasEmbedding(r) => UntouchedLegacy(r)

\* The first call of the session upserted the legacy row of the global
\* bucket by its key.
C7_Witness ==
    /\ StoreReturned
    /\ ret.path = "update"
    /\ ret.scope = "global"
    /\ ncalls = 1
    /\ HasEmbedding(RowById(ret.value.id))

\* C8: of two entries in a retrieve result, one with a strictly higher
\* similarity to the query stands before the other.
C8_HigherScoreFirst ==
    (ret.op = "retrieve" /\ ret.ok)
        => \A i, j \in 1..Len(ret.value) :
              ScoreOf(ret.query, ret.value[i].id) > ScoreOf(ret.query, ret.value[j].id)
                  => i < j

\* Two entries were ranked against the order of their timestamps: the
\* older one has the higher score and comes first.
C8_Witness ==
    /\ ret.op = "retrieve" /\ ret.ok
    /\ Len(ret.value) = 2
    /\ ScoreOf(ret.query, ret.value[1].id) > ScoreOf(ret.query, ret.value[2].id)
    /\ ret.value[1].updatedAt < ret.value[2].updatedAt

\* The candidates of a retrieve call: rows of the resolved scope that carry
\* all filter tags and have an embedding.
Eligible(scope, tags) ==
    {r \in SelectRows(scope) : hasAllTags(r.tags, tags) /\ HasEmbedding(r)}

EffectiveLimit(limit) == IF limit = <<>> THEN DefaultLimit ELSE limit[1]

Min(a, b) == IF a < b THEN a ELSE b

\* C9: retrieve with limit L over n eligible candidates returns exactly
\* min(L, n) entries, and no candidate left out scores strictly higher than
\* a returned one.
C9_TopK ==
    (ret.op = "retrieve" /\ ret.ok)
        => LET cands == Eligible(ret.scope, ret.tags)
           IN  /\ Len(ret.value) =
                    Min(EffectiveLimit(ret.limit), Cardinality(cands))
               /\ IdsOf(ret.value) \subseteq {r.id : r \in cands}
               /\ \A r \in cands : \A i \in 1..Len(ret.value) :
                     r.id \notin IdsOf(ret.value)
                        => ScoreOf(ret.query, r.id) <= ScoreOf(ret.query, ret.value[i].id)

\* A limit of 1 cut two candidates down to the better one, which is the
\* one updated less recently.
C9_Witness ==
    /\ ret.op = "retrieve" /\ ret.ok
    /\ ret.limit = <<1>>
    /\ Len(ret.value) = 1
    /\ \E r \in Eligible(ret.scope, ret.tags) :
          /\ r.id \notin IdsOf(ret.value)
          /\ ScoreOf(ret.query, r.id) < ScoreOf(ret.query, ret.value[1].id)
          /\ r.updated_at > ret.value[1].updatedAt

\* C10: an entry without an embedding is returned by list for its scope and
\* for the wildcard, and is in no retrieve result.
C10_LegacyListedNotRetrieved ==
    \A r \in rows : ~HasEmbedding(r) =>
        /\ (ret.op = "list"
              /\ (ret.scope = "*" \/ normaliseScope(ret.scope) = r.scope)
              /\ hasAllTags(r.tags, ret.tags))
                => rowToEntry(r) \in {ret.value[i] : i \in 1..Len(ret.value)}
        /\ (ret.op = "retrieve" /\ ret.ok) => r.id \notin IdsOf(ret.value)

\* retrieve over all scopes returned an entry and passed over a row
\* without an embedding that carries the filter tags.
C10_Witness ==
    /\ ret.op = "retrieve" /\ ret.ok
    /\ ret.scope = "*"
    /\ Len(ret.value) = 1
    /\ \E r \in rows : ~HasEmbedding(r) /\ hasAllTags(r.tags, ret.tags)

\* Two tags are the same tag when they differ at most in letter case.
SameTag(a, b) == lower(a) = lower(b)

\* Every filter tag is, ignoring case, one of the entry's tags.
PassesFilter(entryTags, filterTags) ==
    \A i \in 1..Len(filterTags) :
        \E j \in 1..Len(entryTags) : SameTag(filterTags[i], entryTags[j])

\* C11: list returns exactly the entries of the selected scope that carry
\* every filter tag ignoring case (all of them for an empty filter), and
\* retrieve returns only such entries, all of them that have an embedding
\* when the limit does not cut the result.
C11_TagFilterIsCaseInsensitiveAnd ==
    /\ ret.op = "list" =>
          IdsOf(ret.value) =
             {r.id : r \in {x \in SelectRows(ret.scope) :
                               PassesFilter(x.tags, ret.tags)}}
    /\ (ret.op = "retrieve" /\ ret.ok) =>
          LET passing == {r.id : r \in {x \in SelectRows(ret.scope) :
                            PassesFilter(x.tags, ret.tags) /\ HasEmbedding(x)}}
          IN  /\ IdsOf(ret.value) \subseteq passing
              /\ ret.limit = <<>> => IdsOf(ret.value) = passing

\* list with the filter ["x", "z"] dropped an entry tagged {"x"} and one
\* tagged {"X", "y"}: each has one of the two tags only.
C11_Witness ==
    /\ ret.op = "list"
    /\ ret.tags = <<"x", "z">>
    /\ ret.value = <<>>
    /\ Cardinality(SelectRows(ret.scope)) = 2

\* C12: a delete call returns true and removes exactly the entry with the
\* given id when that entry is stored under the resolved scope; otherwise it
\* returns false and the table is unchanged.
C12_DeleteScopeAndId ==
    [][ret'.op = "delete" =>
          LET target == {r \in rows : r.id = ret'.id
                                    /\ r.scope = normaliseScope(ret'.scope)}
          IN  IF target # {}
              THEN /\ ret'.ok /\ ret'.value = TRUE
                   /\ Cardinality(target) = 1
                   /\ rows' = rows \ target
              ELSE /\ ret'.ok /\ ret'.value = FALSE
                   /\ rows' = rows]_vars

\* A delete returned false for an id that is stored under another scope,
\* and the entry is still there.
C12_Witness ==
    /\ ret.op = "delete"
    /\ ret.value = FALSE
    /\ \E r \in rows : r.id = ret.id /\ r.scope # normaliseScope(ret.scope)

\* C13 as stated, for two ordinary project names: a rename whose new name
\* already holds an entry fails with the conflict error and leaves the
\* table unchanged.
C13_ConflictWheneverTargetHasEntries ==
    [][(ret'.op = "rename" /\ CountScope(ret'.newName) > 0
            /\ ret'.oldName \in {"A", "B"} /\ ret'.newName \in {"A", "B"})
          => (~ret'.ok /\ ret'.error = "exists" /\ rows' = rows)]_vars

\* C13, amended: a rename whose old name holds an entry and whose new name
\* already holds an entry fails with the conflict error and leaves the
\* table unchanged.
C13_ConflictLeavesBothScopes ==
    [][(ret'.op = "rename" /\ CountScope(ret'.oldName) > 0
                           /\ CountScope(ret'.newName) > 0)
          => (~ret'.ok /\ ret'.error = "exists" /\ rows' = rows)]_vars

\* A rename between two different scopes that both hold entries failed with
\* the conflict error.
C13_Witness ==
    /\ ret.op = "rename"
    /\ ~ret.ok /\ ret.error = "exists"
    /\ ret.oldName # ret.newName
    /\ CountScope(ret.oldName) > 0
    /\ CountScope(ret.newName) > 0

\* C14: a rename whose old name holds no entry returns false without
\* throwing and leaves the table unchanged.
C14_RenameMissingReturnsFalse ==
    [][(ret'.op = "rename" /\ CountScope(ret'.oldName) = 0)
          => (ret'.ok /\ ret'.value = FALSE /\ rows' = rows)]_vars

\* A rename of a project without entries onto a project that holds one
\* returned false.
C14_Witness ==
    /\ ret.op = "rename"
    /\ ret.ok /\ ret.value = FALSE
    /\ ret.oldName = "B"
    /\ CountScope(ret.oldName) = 0
    /\ CountScope(ret.newName) > 0

RenameReturnedTrue == ret.op = "rename" /\ ret.ok /\ ret.value = TRUE

\* In the state a rename returned true in: every entry now stored under the
\* new name is what list selects and delete matches for the new name, and
\* is neither selected by list nor matched by delete for the old name.
MovedReachableUnderNewNameOnly ==
    RenameReturnedTrue =>
        \A r \in rows : r.scope = ret.newName =>
            /\ r \in SelectRows(ret.newName)
            /\ r.scope = normaliseScope(ret.newName)
            /\ r \notin SelectRows(ret.oldName)
            /\ r.scope # normaliseScope(ret.oldName)

\* C15: when a rename returns true, the new name held no entry before, no
\* entry is stored under the old name afterwards, the entries under the new
\* name are exactly those that were under the old name, and each of them is
\* listed and deletable under the new name and not under the old name.
C15_RenameMovesEveryEntry ==
    [][RenameReturnedTrue' =>
          /\ {r \in rows : r.scope = ret'.newName} = {}
          /\ {r \in rows' : r.scope = ret'.oldName} = {}
          /\ {r.id : r \in {x \in rows' : x.scope = ret'.newName}} =
                {r.id : r \in {x \in rows : x.scope = ret'.oldName}}
          /\ MovedReachableUnderNewNameOnly']_vars

\* C16: a rename that returns true keeps every row that was not under the
\* old name as it was, adds and removes no id, and changes of a row that was
\* under the old name the scope only.
C16_RenameChangesScopeOnly ==
    [][RenameReturnedTrue' =>
          /\ {r.id : r \in rows'} = {r.id : r \in rows}
          /\ Cardinality(rows') = Cardinality(rows)
          /\ \A r \in rows :
                IF r.scope = ret'.oldName
                THEN \E u \in rows' :
                        /\ u.id = r.id
                        /\ u.key = r.key
                        /\ u.content = r.content
                        /\ u.tags = r.tags
                        /\ u.embedding = r.embedding
                        /\ u.created_at = r.created_at
                        /\ u.updated_at = r.updated_at
                ELSE r \in rows']_vars

\* A rename moved an entry that a store had written in this session while
\* another scope held an entry.
C16_Witness ==
    /\ RenameReturnedTrue
    /\ ret.oldName = "A" /\ ret.newName = "B"
    /\ \E r \in rows : r.scope = ret.newName /\ HasEmbedding(r) /\ r.updated_at > 0
    /\ \E r \in rows : r.scope # ret.newName

\* C17: a rename whose old or new name is the wildcard "*" or the global
\* bucket's name "global" never returns true and moves no entry.
C17_ReservedNamesNotRenamed ==
    [][(ret'.op = "rename"
          /\ (ret'.oldName \in {"*", "global"} \/ ret'.newName \in {"*", "global"}))
          => (~(ret'.ok /\ ret'.value = TRUE) /\ rows' = rows)]_vars

CallNumbers == 1..Len(embedCalls)

\* C18: whatever the interleaving of warmUp, embed and embedBatch calls (and
\* of the store and retrieve calls that embed), the model load is started
\* at most once, every call waits for that one load, and while it is in
\* flight no call has got past waiting for it.
C18_SingleFlightInit ==
    /\ Len(loads) <= 1
    /\ \A n \in CallNumbers :
          /\ embedCalls[n].awaits = 1
          /\ embedCalls[n].awaits = initPromise
          /\ loads[1] = "pending" => embedCalls[n].pc = "awaitInit"

\* An embed call and an embedBatch call, both issued before the model was
\* ready, wait for the load.
C18_Witness ==
    /\ Len(embedCalls) = 2
    /\ loads = <<"pending">>
    /\ {embedCalls[n].fn : n \in CallNumbers} = {"embed", "embedBatch"}
    /\ \A n \in CallNumbers : embedCalls[n].pc = "awaitInit"

LoadFailed == \E i \in 1..Len(loads) : loads[i] = "rejected"

\* No call has been handed an extractor or a vector, and the last call that
\* completed did not succeed.
NoCallGotAVector ==
    /\ \A n \in CallNumbers : embedCalls[n].pc \in {"awaitInit", "rejected"}
    /\ ret.op # "none" => ~ret.ok

AllCallsRejected == \A n \in CallNumbers : embedCalls[n].pc = "rejected"

\* C19: once the model load has failed, no embed or embedBatch call ever
\* completes with a vector and no store or retrieve succeeds, and every call
\* that waits for the load, whether issued before or after the failure, is
\* eventually rejected.
C19_FailedLoadFailsEveryCall ==
    /\ [](LoadFailed => NoCallGotAVector)
    /\ LoadFailed ~> AllCallsRejected

\* After a failed load a store and a retrieve have both been rejected.
C19_Witness ==
    /\ LoadFailed
    /\ Len(embedCalls) = 2
    /\ AllCallsRejected
    /\ {embedCalls[n].owner : n \in CallNumbers} = {"store", "retrieve"}
    /\ ret.op = "retrieve" /\ ~ret.ok

\* C20: the entries list returns are in descending order of updatedAt, for
\* a single scope and for the wildcard, with and without a tag filter.
C20_ListNewestFirst ==
    ret.op = "list" =>
        \A i, j \in 1..Len(ret.value) :
            i < j => ret.value[i].updatedAt >= ret.value[j].updatedAt

\* A filtered list over all scopes returned two entries, the one updated
\* later first.
C20_Witness ==
    /\ ret.op = "list"
    /\ ret.scope = "*"
    /\ ret.tags = <<"x">>
    /\ Len(ret.value) = 2
    /\ ret.value[1].updatedAt > ret.value[2].updatedAt

\* The entries of the global bucket, under whichever of its names a row was
\* written.
GlobalBucket == {r \in rows : r.scope \in GlobalAliases}

\* C21: with an absent scope, "" or "global" alike, list returns every
\* entry of the global bucket, retrieve every one that has an embedding,
\* delete removes the entry with the given id if the bucket holds it, and a
\* store whose key is that of an entry of the bucket updates this entry.
C21_GlobalAliasesAgree ==
    [][/\ (ret'.op = "list" /\ ret'.scope \in GlobalAliases)
            => IdsOf(ret'.value) = {r.id : r \in GlobalBucket}
       /\ (ret'.op = "retrieve" /\ ret'.ok /\ ret'.scope \in GlobalAliases)
            => IdsOf(ret'.value) =
                  {r.id : r \in {x \in GlobalBucket : HasEmbedding(x)}}
       /\ (ret'.op = "delete" /\ ret'.scope \in GlobalAliases)
            => LET target == {r \in GlobalBucket : r.id = ret'.id}
               IN  /\ ret'.value = (target # {})
                   /\ rows' = rows \ target
       /\ \A c \in pending :
            (StoreFinish(c) /\ c.scopeStr \in GlobalAliases /\ Truthy(c.entry.key)
               /\ \E r \in GlobalBucket :
                     r.key # NULL /\ lower(r.key) = lower(c.entry.key))
            => /\ ret'.ok /\ ret'.path = "update"
               /\ {r.id : r \in rows'} = {r.id : r \in rows}
               /\ \A r \in rows' : r.scope = "global" \/ r \in rows]_vars

\* delete with the empty string as scope removed the last entry of a bucket
\* whose rows are stored under "global".
C21_Witness ==
    /\ ret.op = "delete"
    /\ ret.scope = ""
    /\ ret.value = TRUE
    /\ ncalls = 2
    /\ rows = {}

\* C22: a store that matches the key of an entry, begun after the store
\* that wrote the entry had returned, leaves the entry with a later
\* updatedAt and the same createdAt.
C22_UpsertAdvancesUpdatedAt ==
    [][\A c \in pending :
          (StoreFinish(c) /\ Truthy(c.entry.key)
                /\ RowsByKey(c.scopeStr, c.entry.key) # {})
          => \E e \in RowsByKey(c.scopeStr, c.entry.key) :
                \E u \in rows' :
                    /\ u.id = e.id
                    /\ u.created_at = e.created_at
                    /\ u.updated_at > e.updated_at]_vars

\* C23: in every reachable state no row has the empty string as its scope.
C23_ScopeNeverEmpty ==
    \A r \in rows : r.scope # ""

\* A store has written a row into the global bucket and a rename has moved
\* a row to another project.
C23_Witness ==
    /\ \E r \in rows : r.scope = "global" /\ HasEmbedding(r) /\ r.created_at > 0
    /\ \E r \in rows : r.scope = "B"
    /\ ret.op = "rename"

\* C24: no two rows have the same id, and a store that finds no row by key
\* and carries an id some row of any scope has fails and leaves the table
\* unchanged.
C24_IdsUnique ==
    [][/\ \A r1, r2 \in rows' : r1.id = r2.id => r1 = r2
       /\ \A c \in pending :
            (StoreFinish(c)
               /\ (~Truthy(c.entry.key) \/ RowsByKey(c.scopeStr, c.entry.key) = {})
               /\ \E r \in rows : r.id = c.entry.id)
            => (~ret'.ok /\ rows' = rows)]_vars

\* A store into the global bucket failed on an id that an entry of project
\* "A" has.
C24_Witness ==
    /\ ret.op = "store" /\ ~ret.ok /\ ret.error = "constraint"
    /\ ret.scope = "global"
    /\ \E r \in rows : r.id = ret.entry.id /\ r.scope = "A"

\* C25: the entry a successful store returns is stored under the resolved
\* scope with the returned id, and a delete with that scope and id issued
\* next returns true and removes exactly that entry.
C25_ReturnedIdDeletes ==
    [][/\ StoreReturned' =>
            \E r \in rows' : /\ r.id = ret'.value.id
                              /\ r.scope = ret'.scope
                              /\ r.content = ret'.entry.content
       /\ (StoreReturned /\ ret'.op = "delete" /\ ret'.id = ret.value.id
               /\ normaliseScope(ret'.scope) = ret.scope)
            => /\ ret'.value = TRUE
               /\ rows' = {r \in rows : r.id # ret.value.id}
               /\ Cardinality(rows') = Cardinality(rows) - 1]_vars

\* The second call of the session, a delete under project "A", removed an
\* entry that only the store before it can have inserted.
C25_Witness ==
    /\ ret.op = "delete"
    /\ ret.scope = "A"
    /\ ret.id = 2
    /\ ret.value = TRUE
    /\ ncalls = 2

\* C26: a retrieve slices its result with a limit of at most 100 and
\* returns no more entries than that limit; called without a limit it
\* slices with 20 and returns at most 20 entries.
C26_RetrieveCapped ==
    [][/\ (ret'.op = "retrieve" /\ ret'.ok)
            => /\ ret'.limit # <<>>
               /\ ret'.limit[1] <= 100
               /\ Len(ret'.value) <= ret'.limit[1]
               /\ Len(ret'.value) <= 100
       /\ \A project \in {NULL, "*"}, query \in Queries :
            registerRetrieveTool(project, query, <<>>, <<>>)
                => (ret'.limit = <<20>> /\ Len(ret'.value) <= 20)]_vars

\* A retrieve with limit 1 over two candidates returned one entry.
C26_Witness ==
    /\ ret.op = "retrieve" /\ ret.ok
    /\ ret.limit = <<1>>
    /\ Len(ret.value) = 1
    /\ Cardinality(Eligible(ret.scope, ret.tags)) = 2

\* On the strings of the model (keys of one letter, contents and queries of
\* two) a text contains a query exactly when the two are equal up to case.
ContainsIgnoreCase(text, query) ==
    text # NULL /\ lower(text) = lower(query)

\* C27 as stated: retrieve returns only entries whose key or content
\* contains the query ignoring case, the most recently updated first.
C27_KeywordSearch ==
    (ret.op = "retrieve" /\ ret.ok)
        => /\ \A i \in 1..Len(ret.value) :
                 \/ ContainsIgnoreCase(ret.value[i].key, ret.query)
                 \/ ContainsIgnoreCase(ret.value[i].content, ret.query)
           /\ \A i, j \in 1..Len(ret.value) :
                 i < j => ret.value[i].updatedAt >= ret.value[j].updatedAt

OutsideScope(rs, scopeStr) == {r \in rs : r.scope # scopeStr}

\* C28: a store resolved to scope s leaves every row of the other scopes as
\* it was, also a row that carries the same key; the row it inserts or
\* updates lies in s.
C28_StoreStaysInScope ==
    [][\A c \in pending :
          StoreFinish(c)
          => /\ OutsideScope(rows', c.scopeStr) = OutsideScope(rows, c.scopeStr)
             /\ \A r \in rows' \ rows : r.scope = c.scopeStr]_vars

\* A keyed store returned while another scope holds a different entry with
\* the same key (up to case).
C28_Witness ==
    /\ StoreReturned
    /\ Truthy(ret.entry.key)
    /\ RowById(ret.value.id).scope = ret.scope
    /\ \E r \in OutsideScope(rows, ret.scope) :
          /\ r.key # NULL
          /\ lower(r.key) = lower(ret.entry.key)
          /\ r.id # ret.value.id
          /\ r.content # ret.value.content

\* C29: among the entries of a retrieve result that have the same score,
\* an entry updated later stands in front of an entry updated earlier.
C29_TiesNewestFirst ==
    (ret.op = "retrieve" /\ ret.ok)
        => \A i, j \in 1..Len(ret.value) :
              (/\ ScoreOf(ret.query, ret.value[i].id)
                     = ScoreOf(ret.query, ret.value[j].id)
               /\ ret.value[i].updatedAt > ret.value[j].updatedAt)
                  => i < j

\* retrieve returned two entries of different content and of the same
\* score, updated at different times.
C29_Witness ==
    /\ ret.op = "retrieve" /\ ret.ok
    /\ Len(ret.value) = 2
    /\ ret.value[1].content # ret.value[2].content
    /\ ScoreOf(ret.query, ret.value[1].id) = ScoreOf(ret.query, ret.value[2].id)
    /\ ret.value[1].updatedAt > ret.value[2].updatedAt

\* The calls that have invoked the extractor.
InvokedExtractor == {n \in CallNumbers : "used" \in DOMAIN embedCalls[n]}

\* C30: a call that has invoked the extractor did so after the one load it
\* waited for was fulfilled, and invoked the loaded pipeline.
C30_ExtractorOnlyAfterLoad ==
    \A n \in InvokedExtractor :
        /\ loads[embedCalls[n].awaits] = "fulfilled"
        /\ embedCalls[n].used = "loaded"
        /\ Len(loads) = 1

\* A second call, made while the load was in flight, has got its vector.
C30_Witness ==
    \E n \in InvokedExtractor :
        /\ n > 1
        /\ embedCalls[n].loadAtCall = "pending"
        /\ embedCalls[n].pc = "resolved"

Settled(n) == embedCalls[n].pc \in {"resolved", "rejected"}

\* C31: with the load and every extractor run settling, each call that has
\* been invoked is settled in the end; it waits for one load only, and once
\* settled it does nothing more.
C31_EveryCallSettles ==
    /\ \A n \in 1..MaxCalls :
          (n \in CallNumbers) ~> (n \in CallNumbers /\ Settled(n))
    /\ [][\A n \in CallNumbers :
              /\ embedCalls'[n].awaits = embedCalls[n].awaits
              /\ Settled(n) => embedCalls'[n] = embedCalls[n]]_vars

\* A store has returned its entry and a retrieve has failed, and no call is
\* left waiting.
C31_Witness ==
    /\ Len(embedCalls) = MaxCalls
    /\ \A n \in CallNumbers : Settled(n)
    /\ \E n, m \in CallNumbers :
          /\ embedCalls[n].owner = "store" /\ embedCalls[n].pc = "resolved"
          /\ embedCalls[m].owner = "retrieve" /\ embedCalls[m].pc = "rejected"
    /\ pending = {}

\* C32 as stated, for the stores that were in flight when the rename ran:
\* when such a store completes right after a rename has returned true (no
\* call was invoked in between), no row lies under the old name.  Stated
\* for renames between project names.
C32_NoStoreUnderOldNameAfterRename ==
    [][\A c \in pending :
          (/\ RenameReturnedTrue
           /\ {ret.oldName, ret.newName} \subseteq {"A", "B"}
           /\ StoreFinish(c))
          => {r \in rows' : r.scope = ret.oldName} = {}]_vars

\* C33 as stated: every row has created_at <= updated_at.  Stated for the
\* rows of the global bucket and of the projects.
C33_CreatedNotAfterUpdated ==
    \A r \in rows : r.scope # "*" => r.created_at <= r.updated_at

\* C34: a delete with scope "*" removes no row of the global bucket or of a
\* project, whatever the id.
C34_WildcardDeleteSparesOtherScopes ==
    [][(ret'.op = "delete" /\ ret'.scope = "*")
          => /\ OutsideScope(rows', "*") = OutsideScope(rows, "*")
             /\ ret'.value = TRUE => \E r \in rows \ rows' : r.scope = "*"]_vars

\* delete("*", id) returned false for an id that is stored in the global
\* bucket or in a project, and the entry is still there.
C34_Witness ==
    /\ ret.op = "delete"
    /\ ret.scope = "*"
    /\ ret.value = FALSE
    /\ \E r \in rows : r.id = ret.id /\ r.scope \in {"global", "A"}

\* C35: renameProject(x, x) with at least one row under x fails with the
\* conflict error and leaves the table as it was.
C35_RenameToItselfConflicts ==
    [][(/\ ret'.op = "rename"
        /\ ret'.oldName = ret'.newName
        /\ CountScope(ret'.oldName) > 0)
          => /\ ~ret'.ok
             /\ ret'.error = "exists"
             /\ rows' = rows]_vars

\* renameProject("A", "A") failed while project A held an entry.
C35_Witness ==
    /\ ret.op = "rename"
    /\ ret.oldName = "A" /\ ret.newName = "A"
    /\ ~ret.ok
    /\ \E r \in rows : r.scope = "A"

====
